---- MODULE Spec2Model ----
(***************************************************************************)
(* A model of the NutritionAI backend: the per-user record store of        *)
(* db.py (index file + one JSON file per user, written through temporary   *)
(* files), the nutrition calculator of db.py, and the validation and       *)
(* registration handlers of app.py.                                        *)
(*                                                                         *)
(* Every operation of the store is a function from a disk state to a       *)
(* "run": the sequence of disk states the operation passes through (one    *)
(* per file-system call that changes something), its return value and the  *)
(* exception it ends with, if any.  An action applies a whole run; the     *)
(* Crash action stops a run at one of its intermediate disk states.        *)
(***************************************************************************)
EXTENDS Integers, Sequences, FiniteSets, TLC

VARIABLES disk, last, crashes, request_json, registered, procs

vars == <<disk, last, crashes, request_json, registered, procs>>

(***************************************************************************)
(* Bounds of the model.                                                    *)
(***************************************************************************)
MaxChats == 1
MaxCrashes == 1
MaxTime == 1

Times == 1..MaxTime

(***************************************************************************)
(* Strings that the code takes apart or builds (names, user ids, paths)    *)
(* are sequences of one-character strings.                                 *)
(***************************************************************************)
Whitespace == {" "}
UpperToLower == [c \in {"A", "B"} |-> IF c = "A" THEN "a" ELSE "b"]
WordChars == {"a", "b", "c", "k", "n", "o", "u", "w", "_"}

Unknown == <<"u", "n", "k", "n", "o", "w", "n">>
JsonExt == <<".json">>

UserIds == { <<"c">>, <<"b", "_", "c">> }
Names == { <<"a">>, <<" ", "A", " ", " ", "b">>, <<"!">> }
AllNames == Names \cup {Unknown}

RECURSIVE lstrip(_)
lstrip(s) == IF s # <<>> /\ Head(s) \in Whitespace THEN lstrip(Tail(s)) ELSE s

RECURSIVE rstrip(_)
rstrip(s) ==
  IF s # <<>> /\ s[Len(s)] \in Whitespace THEN rstrip(SubSeq(s, 1, Len(s) - 1)) ELSE s

strip(s) == rstrip(lstrip(s))

lower(s) == [i \in 1..Len(s) |-> IF s[i] \in DOMAIN UpperToLower THEN UpperToLower[s[i]] ELSE s[i]]

\* re.sub(r"\s+", "_", name): every maximal run of whitespace becomes one "_"
RECURSIVE collapse_ws(_)
collapse_ws(s) ==
  IF s = <<>> THEN <<>>
  ELSE IF Head(s) \in Whitespace
       THEN <<"_">> \o collapse_ws(lstrip(s))
       ELSE <<Head(s)>> \o collapse_ws(Tail(s))

\* re.sub(r"[^\w\u0600-\u06FF\-]", "", name): word characters, Arabic letters and
\* "-" are kept.  No name of the model holds an Arabic letter.
RECURSIVE strip_unsafe(_)
strip_unsafe(s) ==
  IF s = <<>> THEN <<>>
  ELSE IF Head(s) \in WordChars \cup {"-"}
       THEN <<Head(s)>> \o strip_unsafe(Tail(s))
       ELSE strip_unsafe(Tail(s))

sanitize_filename(name) ==
  LET n == strip_unsafe(collapse_ws(lower(strip(name))))
  IN  IF n = <<>> THEN Unknown ELSE n

user_filename(user_id, name) == sanitize_filename(name) \o <<"_">> \o user_id \o JsonExt

Locations == { user_filename(u, n) : u \in UserIds, n \in AllNames }

(***************************************************************************)
(* Files.  A file is absent, holds an incomplete write (opened for         *)
(* writing, json.dump not finished: not a JSON document), or holds one     *)
(* complete JSON document.                                                 *)
(***************************************************************************)
NoFile == [kind |-> "none"]
Partial == [kind |-> "partial"]
Json(doc) == [kind |-> "json", doc |-> doc]

EmptyIndex == [u \in {} |-> <<>>]

EmptyDisk ==
  [ data_dir  |-> FALSE,
    users_dir |-> FALSE,
    index     |-> NoFile,
    index_tmp |-> NoFile,
    files     |-> [p \in Locations |-> NoFile],
    tmps      |-> [p \in Locations |-> NoFile] ]

(***************************************************************************)
(* Runs.  tr[1] is the disk the operation started on, tr[Len(tr)] the      *)
(* disk it left; exc is "" when the operation returned normally.           *)
(***************************************************************************)
Run(tr, ret, exc) == [tr |-> tr, ret |-> ret, exc |-> exc]
Final(r) == r.tr[Len(r.tr)]
\* F applied to the value of v, which is computed once
Then(v, F(_)) == CHOOSE y \in { F(x) : x \in {v} } : TRUE
\* the run r1 followed by the run F(d) of the next call, d the disk r1 left
Chain(r1, F(_)) ==
  Then(r1, LAMBDA a : Then(F(Final(a)), LAMBDA b : [b EXCEPT !.tr = a.tr \o Tail(b.tr)]))
\* the disk states d1, d2, ... appended to a trace, dropping steps that change nothing
RECURSIVE Steps(_, _)
Steps(tr, ds) ==
  IF ds = <<>> THEN tr
  ELSE Steps(IF Head(ds) = tr[Len(tr)] THEN tr ELSE Append(tr, Head(ds)), Tail(ds))

None == [kind |-> "none"]
RetPath(p) == [kind |-> "path", path |-> p]
RetBool(b) == [kind |-> "bool", val |-> b]
RetDoc(doc) == [kind |-> "doc", doc |-> doc]
RetError(msg) == [kind |-> "error", msg |-> msg]

ensure_data_dir(d) ==
  LET d1 == [d EXCEPT !.data_dir = TRUE]
      d2 == [d1 EXCEPT !.users_dir = TRUE]
      \* open(INDEX_FILE, "w") creates the file empty; json.dump fills it
      d3 == IF d2.index = NoFile THEN [d2 EXCEPT !.index = Partial] ELSE d2
      d4 == IF d2.index = NoFile THEN [d2 EXCEPT !.index = Json(EmptyIndex)] ELSE d2
  IN  Run(Steps(<<d>>, <<d1, d2, d3, d4>>), None, "")

load_index(d) ==
  Then(ensure_data_dir(d), LAMBDA r :
    IF Final(r).index.kind = "json" THEN [r EXCEPT !.ret = RetDoc(Final(r).index.doc)]
    ELSE [r EXCEPT !.exc = "JSONDecodeError"])

save_index(d, index) ==
  LET d1 == [d EXCEPT !.index_tmp = Partial]
      d2 == [d EXCEPT !.index_tmp = Json(index)]
      d3 == [d EXCEPT !.index = Json(index), !.index_tmp = NoFile]
  IN  Run(Steps(<<d>>, <<d1, d2, d3>>), None, "")

\* the three steps of "write tmp, os.replace(tmp, path)" of a user file
write_user_file(d, path, data) ==
  LET d1 == [d EXCEPT !.tmps[path] = Partial]
      d2 == [d EXCEPT !.tmps[path] = Json(data)]
      d3 == [d EXCEPT !.files[path] = Json(data), !.tmps[path] = NoFile]
  IN  Run(Steps(<<d>>, <<d1, d2, d3>>), None, "")

(***************************************************************************)
(* User records.  An optional or nullable JSON value is a set with at most *)
(* one element ({} is None or a missing key; the code reads both with      *)
(* data.get).  Numbers are integers: kg, cm, years, kcal.                  *)
(***************************************************************************)
NoProfile == [age |-> {}, weight |-> {}, height |-> {}, goal |-> {}, activity_level |-> {}]

initial_data(user_id, name, prof, now) ==
  [ user_id        |-> user_id,
    name           |-> name,
    age            |-> prof.age,
    weight         |-> prof.weight,
    height         |-> prof.height,
    goal           |-> prof.goal,
    activity_level |-> prof.activity_level,
    created_at     |-> now,
    language       |-> "en",
    chats          |-> <<>>,
    nutrition      |-> {},
    \* keys the initial record does not hold
    gender         |-> {},
    surplus        |-> {},
    image_analyses |-> <<>> ]

\* index[user_id] = path
with_entry(index, user_id, path) ==
  [u \in DOMAIN index \cup {user_id} |-> IF u = user_id THEN path ELSE index[u]]

\* lines 53-74 of create_user_file: r1 is the run so far, index the loaded index
create_new_user_file(r1, index, user_id, name, prof, now) ==
  Then(Chain(r1, LAMBDA d1 : write_user_file(d1, user_filename(user_id, name),
                                             initial_data(user_id, name, prof, now))),
       LAMBDA r2 :
  Then(Chain(r2, LAMBDA d2 : save_index(d2, with_entry(index, user_id,
                                                       user_filename(user_id, name)))),
       LAMBDA r3 : [r3 EXCEPT !.ret = RetPath(user_filename(user_id, name))]))

create_user_file_overwrite(d, user_id, name, prof, now) ==
  Then(Chain(ensure_data_dir(d), load_index), LAMBDA r1 :
    IF r1.exc # "" THEN r1
    ELSE create_new_user_file(r1, r1.ret.doc, user_id, name, prof, now))

create_user_file(d, user_id, name, prof, now) ==
  Then(Chain(ensure_data_dir(d), load_index), LAMBDA r1 :
    IF r1.exc # "" THEN r1
    ELSE IF user_id \in DOMAIN r1.ret.doc THEN [r1 EXCEPT !.ret = RetPath(r1.ret.doc[user_id])]
    ELSE create_new_user_file(r1, r1.ret.doc, user_id, name, prof, now))

One(s) == CHOOSE x \in s : TRUE

\* ret: {} when the index has no entry (index.get returns None), else {path}
get_user_file_path(d, user_id) ==
  Then(Chain(ensure_data_dir(d), load_index), LAMBDA r1 :
    IF r1.exc # "" THEN r1
    ELSE [r1 EXCEPT !.ret = IF user_id \in DOMAIN r1.ret.doc
                            THEN {r1.ret.doc[user_id]} ELSE {}])

\* ret: {} for None, else {record}
load_user_data(d, user_id) ==
  Then(get_user_file_path(d, user_id), LAMBDA r :
    IF r.exc # "" THEN r
    ELSE IF r.ret = {} THEN r
    ELSE IF Final(r).files[One(r.ret)].kind = "none" THEN [r EXCEPT !.ret = {}]
    ELSE IF Final(r).files[One(r.ret)].kind = "partial" THEN [r EXCEPT !.exc = "JSONDecodeError"]
    ELSE [r EXCEPT !.ret = {Final(r).files[One(r.ret)].doc}])

\* save_user_data reporting success also when the index has no entry
save_user_data_blind(d, user_id, data) ==
  Then(get_user_file_path(d, user_id), LAMBDA r :
    IF r.exc # "" THEN r
    ELSE IF r.ret = {} THEN [r EXCEPT !.ret = RetBool(TRUE)]
    ELSE Then(Chain(r, LAMBDA d1 : write_user_file(d1, One(r.ret), data)),
              LAMBDA r2 : [r2 EXCEPT !.ret = RetBool(TRUE)]))

save_user_data(d, user_id, data) ==
  Then(get_user_file_path(d, user_id), LAMBDA r :
    IF r.exc # "" THEN r
    ELSE IF r.ret = {} THEN [r EXCEPT !.ret = RetBool(FALSE)]
    ELSE Then(Chain(r, LAMBDA d1 : write_user_file(d1, One(r.ret), data)),
              LAMBDA r2 : [r2 EXCEPT !.ret = RetBool(TRUE)]))

Exchange(user_message, bot_response, now) ==
  [user |-> user_message, bot |-> bot_response, timestamp |-> now]

\* lines 100-102 of add_chat: r1 is the run of the first load_user_data
load_or_create(r1, user_id, now) ==
  IF r1.ret # {} THEN r1
  ELSE Then(Chain(r1, LAMBDA d1 : create_user_file(d1, user_id, Unknown, NoProfile, now)),
            LAMBDA c : IF c.exc # "" THEN c
                       ELSE Chain(c, LAMBDA d2 : load_user_data(d2, user_id)))

add_chat(d, user_id, user_message, bot_response, now) ==
  Then(load_user_data(d, user_id), LAMBDA r1 :
    IF r1.exc # "" THEN r1
    ELSE Then(load_or_create(r1, user_id, now), LAMBDA r2 :
      IF r2.exc # "" THEN r2
      \* data is None: data.setdefault raises
      ELSE IF r2.ret = {} THEN [r2 EXCEPT !.ret = None, !.exc = "AttributeError"]
      ELSE Then(Chain(r2, LAMBDA d2 :
                  save_user_data(d2, user_id,
                    [One(r2.ret) EXCEPT !.chats =
                       Append(@, Exchange(user_message, bot_response, now))])),
                LAMBDA r3 : IF r3.exc # "" THEN r3 ELSE [r3 EXCEPT !.ret = None])))

get_chats(d, user_id) ==
  Then(load_user_data(d, user_id), LAMBDA r :
    IF r.exc # "" THEN r
    ELSE IF r.ret = {} THEN [r EXCEPT !.ret = <<>>]
    ELSE [r EXCEPT !.ret = One(r.ret).chats])

\* lines 122-124 of rename_user_file on the disk d: the disks passed through, the
\* last one with moved = FALSE when os.replace raised FileNotFoundError
move_file(d, path, new_path) ==
  Then([d EXCEPT !.files[new_path] = NoFile], LAMBDA d2 :
    IF d2.files[path] = NoFile THEN [tr |-> <<d2>>, moved |-> FALSE]
    ELSE [tr |-> <<d2, [d2 EXCEPT !.files[new_path] = d2.files[path],
                                  !.files[path] = IF path = new_path THEN d2.files[path]
                                                  ELSE NoFile]>>,
          moved |-> TRUE])

\* lines 128-132 of rename_user_file: r5 is the run so far
rename_record(r5, user_id, new_name, new_path) ==
  Then(Chain(r5, LAMBDA d5 : load_user_data(d5, user_id)), LAMBDA r6 :
    IF r6.exc # "" THEN [r6 EXCEPT !.ret = None]
    ELSE IF r6.ret = {} THEN [r6 EXCEPT !.ret = RetPath(new_path)]
    ELSE Then(Chain(r6, LAMBDA d6 : save_user_data(d6, user_id,
                                      [One(r6.ret) EXCEPT !.name = new_name])),
              LAMBDA r7 : [r7 EXCEPT !.ret = RetPath(new_path)]))

\* ret: None, else RetPath(new_path)
rename_user_file(d, user_id, new_name) ==
  Then(get_user_file_path(d, user_id), LAMBDA r1 :
    IF r1.exc # "" THEN r1
    ELSE IF r1.ret = {} \/ Final(r1).files[One(r1.ret)] = NoFile THEN [r1 EXCEPT !.ret = None]
    ELSE Then(move_file(Final(r1), One(r1.ret), user_filename(user_id, new_name)), LAMBDA mv :
      Then([r1 EXCEPT !.tr = Steps(@, mv.tr)], LAMBDA r3 :
        IF ~mv.moved THEN [r3 EXCEPT !.ret = None, !.exc = "FileNotFoundError"]
        ELSE Then(Chain(r3, load_index), LAMBDA r4 :
          IF r4.exc # "" THEN [r4 EXCEPT !.ret = None]
          ELSE Then(Chain(r4, LAMBDA d4 :
                      save_index(d4, with_entry(r4.ret.doc, user_id,
                                                user_filename(user_id, new_name)))),
                    LAMBDA r5 : rename_record(r5, user_id, new_name,
                                              user_filename(user_id, new_name)))))))

(***************************************************************************)
(* Nutrition calculator.  gender, goal and activity level are words; the   *)
(* code lower-cases or capitalises some of them.  The words of the model:  *)
(***************************************************************************)
Genders == {"male", "female", "Male", "other"}
ActivityLevels == {"sedentary", "light", "moderate", "very_active", "extra_active", "Light"}
Goals == {"loss", "gain", "maintenance", "Gain", "bulk"}

\* str.lower() on the words of the model
lower_word(w) ==
  CASE w = "Male" -> "male"
    [] w = "Light" -> "light"
    [] w = "Gain" -> "gain"
    [] OTHER -> w

\* str.capitalize() on the words of the model
capitalize(w) ==
  CASE lower_word(w) = "loss" -> "Loss"
    [] lower_word(w) = "gain" -> "Gain"
    [] lower_word(w) = "maintenance" -> "Maintenance"
    [] lower_word(w) = "bulk" -> "Bulk"
    [] OTHER -> w

\* Python's round(n / d) for d > 0: to the nearest integer, a tie to the even one
round(n, d) ==
  LET q == n \div d
      r == n % d
  IN  IF 2 * r < d THEN q
      ELSE IF 2 * r > d THEN q + 1
      ELSE IF q % 2 = 0 THEN q ELSE q + 1

ActivityValid == {"sedentary", "light", "moderate", "very_active", "extra_active"}

\* validate_inputs with its checks removed
validate_inputs_unchecked(weight, height, age, gender, activity_level, goal, surplus) == ""

\* "" when the inputs pass, else the message of the ValueError raised
validate_inputs(weight, height, age, gender, activity_level, goal, surplus) ==
  IF ~(30 <= weight /\ weight <= 300) THEN "Weight must be between 30kg and 300kg"
  ELSE IF ~(120 <= height /\ height <= 250) THEN "Height must be between 120cm and 250cm"
  ELSE IF ~(15 <= age /\ age <= 90) THEN "Age must be between 15 and 90 years"
  ELSE IF lower_word(gender) \notin {"male", "female"} THEN "Gender must be 'male' or 'female'"
  ELSE IF activity_level \notin ActivityValid THEN "Invalid activity level"
  ELSE IF lower_word(goal) \notin {"loss", "gain", "maintenance"} THEN "Invalid goal"
  ELSE IF lower_word(goal) = "gain" /\ ~(300 <= surplus /\ surplus <= 500)
       THEN "For muscle gain, surplus must be between 300 and 500 kcal"
  ELSE ""

(***************************************************************************)
(* The calculator's floating-point values are exact fractions here: a BMR  *)
(* is held in quarters of a kcal (6.25 = 25/4), an activity factor in      *)
(* thousandths, so a TDEE and a calorie target in 1/4000 kcal; a macro     *)
(* share is held in hundredths.  [val, exc]: exc is the ValueError message.*)
(***************************************************************************)
Val(v) == [val |-> v, exc |-> ""]
Raise(msg) == [val |-> 0, exc |-> msg]

\* calculate_bmr returning the BMR rounded to a whole kcal
calculate_bmr_rounded(weight, height, age, gender) ==
  IF lower_word(gender) = "male"
    THEN Val(4 * round(40 * weight + 25 * height - 20 * age + 20, 4))
  ELSE IF lower_word(gender) = "female"
    THEN Val(4 * round(40 * weight + 25 * height - 20 * age - 644, 4))
  ELSE Raise("Gender must be 'male' or 'female'")

\* in 1/4 kcal
calculate_bmr(weight, height, age, gender) ==
  IF lower_word(gender) = "male" THEN Val(40 * weight + 25 * height - 20 * age + 20)
  ELSE IF lower_word(gender) = "female" THEN Val(40 * weight + 25 * height - 20 * age - 644)
  ELSE Raise("Gender must be 'male' or 'female'")

\* in thousandths
factors == [sedentary |-> 1200, light |-> 1375, moderate |-> 1550,
            very_active |-> 1725, extra_active |-> 1900]

\* bmr in 1/4 kcal; the result in 1/4000 kcal
calculate_tdee(bmr, activity_level) ==
  IF activity_level \notin DOMAIN factors THEN Raise("Invalid activity level")
  ELSE Val(bmr * factors[activity_level])

\* tdee and the result in 1/4000 kcal; surplus in kcal
adjust_calories_for_goal(tdee, goal, surplus) ==
  LET g == lower_word(goal)
  IN  IF g = "loss" THEN Val(tdee - 500 * 4000)
      ELSE IF g = "gain"
           THEN IF ~(300 <= surplus /\ surplus <= 500)
                THEN Raise("For muscle gain, surplus must be between 300 and 500 kcal")
                ELSE Val(tdee + surplus * 4000)
      ELSE IF g = "maintenance" THEN Val(tdee)
      ELSE Raise("Goal must be 'loss', 'gain', or 'maintenance'")

\* in hundredths
macro_split(goal) ==
  LET g == lower_word(goal)
  IN  IF g = "loss" THEN [protein |-> 40, carbs |-> 30, fat |-> 30]
      ELSE IF g = "gain" THEN [protein |-> 35, carbs |-> 40, fat |-> 25]
      ELSE [protein |-> 30, carbs |-> 40, fat |-> 30]

\* total_calories in 1/4000 kcal; grams
calculate_macros(total_calories, goal) ==
  LET split == macro_split(goal)
  IN  [ protein_g |-> round(total_calories * split.protein, 4000 * 100 * 4),
        carbs_g   |-> round(total_calories * split.carbs, 4000 * 100 * 4),
        fat_g     |-> round(total_calories * split.fat, 4000 * 100 * 9) ]

MissingData ==
  "Please provide all required data (weight, height, age, gender, activity level, goal)"

\* the try block of calculate_nutrition: [val |-> results, exc |-> message]
nutrition_results(data) ==
  LET weight == One(data.weight)
      height == One(data.height)
      age == One(data.age)
      gender == One(data.gender)
      activity_level == One(data.activity_level)
      goal == One(data.goal)
      surplus == IF data.surplus = {} THEN 400 ELSE One(data.surplus)
      v == validate_inputs(weight, height, age, gender, activity_level, goal, surplus)
      bmr == calculate_bmr(weight, height, age, gender)
      tdee == calculate_tdee(bmr.val, activity_level)
      goal_calories == adjust_calories_for_goal(tdee.val, goal, surplus)
  IN  IF v # "" THEN Raise(v)
      ELSE IF bmr.exc # "" THEN bmr
      ELSE IF tdee.exc # "" THEN tdee
      ELSE IF goal_calories.exc # "" THEN goal_calories
      ELSE Val([ BMR           |-> round(bmr.val, 4),
                 TDEE          |-> round(tdee.val, 4000),
                 Goal_Calories |-> round(goal_calories.val, 4000),
                 Goal          |-> capitalize(goal),
                 Macros        |-> calculate_macros(goal_calories.val, goal) ])

\* not all([data.get("weight"), ...]): a value is missing, None or 0
lacks_required(data) ==
  \/ data.weight = {} \/ data.weight = {0}
  \/ data.height = {} \/ data.height = {0}
  \/ data.age = {} \/ data.age = {0}
  \/ data.gender = {} \/ data.activity_level = {} \/ data.goal = {}

RetNutrition(res) == [kind |-> "nutrition", val |-> res]

\* calculate_nutrition storing, with the results, the default surplus
calculate_nutrition_default_surplus(d, user_id) ==
  Then(load_user_data(d, user_id), LAMBDA r1 :
    IF r1.exc # "" THEN r1
    ELSE IF r1.ret = {} THEN [r1 EXCEPT !.ret = RetError(MissingData)]
    ELSE IF lacks_required(One(r1.ret)) THEN [r1 EXCEPT !.ret = RetError(MissingData)]
    ELSE Then(nutrition_results(One(r1.ret)), LAMBDA res :
      IF res.exc # "" THEN [r1 EXCEPT !.ret = RetError(res.exc)]
      ELSE Then(Chain(r1, LAMBDA d1 : save_user_data(d1, user_id,
                                        [One(r1.ret) EXCEPT !.nutrition = {res.val},
                                                            !.surplus = {400}])),
                LAMBDA r2 : IF r2.exc # "" THEN r2
                            ELSE [r2 EXCEPT !.ret = RetNutrition(res.val)])))

\* ret: RetError(message) or RetNutrition(results)
calculate_nutrition(d, user_id) ==
  Then(load_user_data(d, user_id), LAMBDA r1 :
    IF r1.exc # "" THEN r1
    ELSE IF r1.ret = {} THEN [r1 EXCEPT !.ret = RetError(MissingData)]
    ELSE IF lacks_required(One(r1.ret)) THEN [r1 EXCEPT !.ret = RetError(MissingData)]
    ELSE Then(nutrition_results(One(r1.ret)), LAMBDA res :
      IF res.exc # "" THEN [r1 EXCEPT !.ret = RetError(res.exc)]
      ELSE Then(Chain(r1, LAMBDA d1 : save_user_data(d1, user_id,
                                        [One(r1.ret) EXCEPT !.nutrition = {res.val}])),
                LAMBDA r2 : IF r2.exc # "" THEN r2
                            ELSE [r2 EXCEPT !.ret = RetNutrition(res.val)])))

(***************************************************************************)
(* Validation layer and registration (app.py).  A numeric field of a       *)
(* request is missing, a number, or a string that is no number.            *)
(***************************************************************************)
Absent == [t |-> "absent"]
Num(n) == [t |-> "num", v |-> n]
Malformed == [t |-> "bad"]

\* Python truthiness of data.get(field): None, 0 and "" are false
truthy(x) == x.t = "bad" \/ (x.t = "num" /\ x.v # 0)

ErrAge == "Age must be between 15 and 90 years"
ErrWeight == "Weight must be between 30kg and 300kg"
ErrHeight == "Height must be between 120cm and 250cm"
ErrGender == "Gender must be 'male' or 'female'"
ErrActivity == "Invalid activity level"
ErrGoal == "Goal must be 'loss', 'gain', or 'maintenance'"
ErrSurplus == "For muscle gain, surplus must be between 300 and 500 kcal"
ErrFormat == "Invalid data format"
RAISE == "raise ValueError"

\* one numeric check of the try block: "" (passes), its message, or RAISE
range_check(x, lo, hi, msg) ==
  IF ~truthy(x) THEN ""
  ELSE IF x.t = "bad" THEN RAISE
  ELSE IF ~(lo <= x.v /\ x.v <= hi) THEN msg ELSE ""

\* the checks of the try block in order, each "" or a message or RAISE
try_checks(data) ==
  << range_check(data.age, 15, 90, ErrAge),
     range_check(data.weight, 30, 300, ErrWeight),
     range_check(data.height, 120, 250, ErrHeight),
     IF data.gender # {} /\ lower_word(One(data.gender)) \notin {"male", "female"}
       THEN ErrGender ELSE "",
     IF data.activityLevel # {} /\ One(data.activityLevel) \notin ActivityValid
       THEN ErrActivity ELSE "",
     IF data.goal # {} /\ lower_word(One(data.goal)) \notin {"loss", "gain", "maintenance"}
       THEN ErrGoal ELSE "",
     IF data.goal = {"gain"} /\ truthy(data.surplus)
       THEN range_check(data.surplus, 300, 500, ErrSurplus) ELSE "" >>

\* the errors the try block appends: a raise ends the block with ErrFormat
RECURSIVE run_checks(_)
run_checks(cs) ==
  IF cs = <<>> THEN <<>>
  ELSE IF Head(cs) = RAISE THEN <<ErrFormat>>
  ELSE IF Head(cs) = "" THEN run_checks(Tail(cs))
  ELSE <<Head(cs)>> \o run_checks(Tail(cs))

required_errors(data) ==
  (IF data.userId = {} THEN <<"userId is required">> ELSE <<>>)
  \o (IF data.name = {} THEN <<"name is required">> ELSE <<>>)
  \o (IF ~truthy(data.age) THEN <<"age is required">> ELSE <<>>)
  \o (IF ~truthy(data.weight) THEN <<"weight is required">> ELSE <<>>)
  \o (IF ~truthy(data.height) THEN <<"height is required">> ELSE <<>>)
  \o (IF data.gender = {} THEN <<"gender is required">> ELSE <<>>)
  \o (IF data.activityLevel = {} THEN <<"activityLevel is required">> ELSE <<>>)
  \o (IF data.goal = {} THEN <<"goal is required">> ELSE <<>>)

validate_user_data(data) == required_errors(data) \o run_checks(try_checks(data))

Response(status, success, message) ==
  [status |-> status, success |-> success, message |-> message, nutrition |-> None]

failed(r, message) == [r EXCEPT !.ret = Response(500, FALSE, message), !.exc = ""]

\* the surplus register_user stores: int(data.get('surplus', 400)) for goal gain
stored_surplus(data) ==
  IF lower_word(One(data.goal)) = "gain"
  THEN (IF data.surplus.t = "absent" THEN 400 ELSE data.surplus.v)
  ELSE 400

\* lines 170-207 of register_user: r1 is the run so far
create_profile(r1, data, user_id, now) ==
  Then(Chain(r1, LAMBDA d1 :
         create_user_file(d1, user_id, One(data.name),
                          [ age            |-> {data.age.v},
                            weight         |-> {data.weight.v},
                            height         |-> {data.height.v},
                            goal           |-> {lower_word(One(data.goal))},
                            activity_level |-> data.activityLevel ], now)),
       LAMBDA r2 :
    IF r2.exc # "" THEN failed(r2, "Failed to create user profile")
    ELSE Then(Chain(r2, LAMBDA d2 : load_user_data(d2, user_id)), LAMBDA r3 :
      IF r3.exc # "" THEN failed(r3, "Failed to create user profile")
      \* user_data is None: user_data.update raises
      ELSE IF r3.ret = {} THEN failed(r3, "Failed to create user profile")
      \* int(data.get('surplus', 400)) raises on a string that is no number
      ELSE IF lower_word(One(data.goal)) = "gain" /\ data.surplus.t = "bad"
           THEN failed(r3, "Failed to create user profile")
      ELSE Then(Chain(r3, LAMBDA d3 :
                  save_user_data(d3, user_id,
                    [One(r3.ret) EXCEPT !.gender = {lower_word(One(data.gender))},
                                        !.surplus = {stored_surplus(data)}])),
                LAMBDA r4 :
        IF r4.exc # "" THEN failed(r4, "Failed to create user profile")
        ELSE Then(Chain(r4, LAMBDA d4 : calculate_nutrition(d4, user_id)), LAMBDA r5 :
          IF r5.exc # "" THEN failed(r5, "Failed to create user profile")
          ELSE [r5 EXCEPT !.ret = [Response(200, TRUE, "User registered successfully")
                                     EXCEPT !.nutrition = r5.ret]]))))

\* register_user without the look-up of an existing user (lines 162-168)
register_user_unchecked(d, request, now) ==
  IF request = {} THEN Run(<<d>>, Response(400, FALSE, "No data provided"), "")
  ELSE IF validate_user_data(One(request)) # <<>>
       THEN Run(<<d>>, Response(400, FALSE, "Validation failed"), "")
  ELSE Then(load_user_data(d, strip(One(One(request).userId))), LAMBDA r1 :
    IF r1.exc # "" THEN failed(r1, "Registration failed")
    ELSE create_profile(r1, One(request), strip(One(One(request).userId)), now))

\* request: {} (no JSON body) or {data}.  ret: the response
register_user(d, request, now) ==
  IF request = {} THEN Run(<<d>>, Response(400, FALSE, "No data provided"), "")
  ELSE IF validate_user_data(One(request)) # <<>>
       THEN Run(<<d>>, Response(400, FALSE, "Validation failed"), "")
  ELSE Then(load_user_data(d, strip(One(One(request).userId))), LAMBDA r1 :
    IF r1.exc # "" THEN failed(r1, "Registration failed")
    ELSE IF r1.ret # {} THEN [r1 EXCEPT !.ret = Response(409, FALSE, "already exists")]
    ELSE create_profile(r1, One(request), strip(One(One(request).userId)), now))

(***************************************************************************)
(* The chat request (app.py chat, chatbot.py get_bot_response).  What the  *)
(* collaborators outside the program return is an input of the request:    *)
(* ready tells whether the LLM, the food data and the vector store could   *)
(* be set up, voice is the text analyze_voice returns, image the text      *)
(* analyze_food_image returns, llm the response of the LLM chain ({} when  *)
(* it raises).  An upload is a file name with the number of bytes read.    *)
(***************************************************************************)
ALLOWED_EXTENSIONS ==
  { <<"p", "n", "g">>, <<"j", "p", "g">>, <<"j", "p", "e", "g">>, <<"g", "i", "f">>,
    <<"w", "a", "v">>, <<"m", "p", "3">>, <<"o", "g", "g">>, <<"w", "e", "b", "m">> }

\* filename.rsplit('.', 1)[1] of a file name that holds a "."
RECURSIVE after_last_dot(_)
after_last_dot(s) ==
  IF s[Len(s)] = "." THEN <<>>
  ELSE Append(after_last_dot(SubSeq(s, 1, Len(s) - 1)), s[Len(s)])

allowed_file(filename) ==
  /\ \E i \in 1..Len(filename) : filename[i] = "."
  /\ lower(after_last_dot(filename)) \in ALLOWED_EXTENSIONS

ErrorPrefix == <<"E", "r", "r", "o", "r">>
startswith(s, prefix) == Len(s) >= Len(prefix) /\ SubSeq(s, 1, Len(prefix)) = prefix

\* what get_bot_response returns: the response of the LLM, the text of a failed
\* voice analysis, or one of its own error messages
BotText(response) == [kind |-> "llm", text |-> response]
VoiceError(text) == [kind |-> "voice", text |-> text]
BotError(msg) == [kind |-> "error", msg |-> msg]

NotFound == "Error: User not found. Please create a user profile."
RequestError == "Error processing request"

\* the except clause of get_bot_response
bot_failed(r) == [r EXCEPT !.ret = BotError(RequestError), !.exc = ""]

\* bytes or None: {} is None, {n} are n bytes
has_bytes(data) == data # {} /\ One(data) > 0

ImageAnalysis(analysis, now) == [analysis |-> analysis, timestamp |-> now]

\* lines 214-221: r1 is the run so far, user_data the record loaded at line 197
analyze_image(r1, user_id, user_data, image_data, ext, now) ==
  IF ~has_bytes(image_data) THEN r1
  ELSE Chain(r1, LAMBDA d1 :
         save_user_data(d1, user_id,
           [user_data EXCEPT !.image_analyses = Append(@, ImageAnalysis(ext.image, now))]))

\* lines 223-241: r2 is the run so far, user_input {} (None) or {text}
answer(r2, user_id, user_input, ext, now) ==
  Then(Chain(r2, LAMBDA d2 : get_chats(d2, user_id)), LAMBDA r3 :
    IF r3.exc # "" THEN bot_failed(r3)
    ELSE IF ext.llm = {} THEN bot_failed(r3)
    ELSE IF user_input = {} \/ One(user_input) = <<>>
         THEN [r3 EXCEPT !.ret = BotText(One(ext.llm))]
    ELSE Then(Chain(r3, LAMBDA d3 :
                add_chat(d3, user_id, One(user_input), One(ext.llm), now)),
              LAMBDA r4 : IF r4.exc # "" THEN bot_failed(r4)
                          ELSE [r4 EXCEPT !.ret = BotText(One(ext.llm))]))

\* user_input: {} (None) or {text}; image_data, voice_data: {} (None) or {bytes}
get_bot_response(d, user_id, user_input, image_data, voice_data, ext, now) ==
  IF ~ext.ready THEN Run(<<d>>, BotError(RequestError), "")
  ELSE Then(load_user_data(d, user_id), LAMBDA r1 :
    IF r1.exc # "" THEN bot_failed(r1)
    ELSE IF r1.ret = {} THEN [r1 EXCEPT !.ret = BotError(NotFound)]
    ELSE IF has_bytes(voice_data) /\ startswith(ext.voice, ErrorPrefix)
         THEN [r1 EXCEPT !.ret = VoiceError(ext.voice)]
    ELSE Then(analyze_image(r1, user_id, One(r1.ret), image_data, ext, now), LAMBDA r2 :
      IF r2.exc # "" THEN bot_failed(r2)
      ELSE answer(r2, user_id, IF has_bytes(voice_data) THEN {ext.voice} ELSE user_input,
                  ext, now)))

ChatResponse(status, success, response) ==
  [status |-> status, success |-> success, response |-> response]

\* image_data and voice_data of lines 236-264: the bytes of an upload
uploaded(files, checked) ==
  IF files # {} /\ One(files).filename # <<>>
        /\ (checked => allowed_file(One(files).filename))
  THEN {One(files).bytes} ELSE {}

\* lines 273-289 of chat: message is stripped
respond(r1, user_id, message, image_data, voice_data, ext, now) ==
  IF message = <<>> /\ ~has_bytes(image_data) /\ ~has_bytes(voice_data)
  THEN [r1 EXCEPT !.ret = ChatResponse(400, FALSE, None)]
  ELSE Then(Chain(r1, LAMBDA d1 :
              get_bot_response(d1, user_id, IF message # <<>> THEN {message} ELSE {},
                               image_data, voice_data, ext, now)),
            LAMBDA r2 : [r2 EXCEPT !.ret = ChatResponse(200, TRUE, r2.ret)])

\* form: the fields and files of the request; {} is a field that is not there
chat(d, form, ext, now) ==
  IF form.user_id = {} \/ One(form.user_id) = <<>>
  THEN Run(<<d>>, ChatResponse(400, FALSE, None), "")
  ELSE Then(load_user_data(d, One(form.user_id)), LAMBDA r1 :
    IF r1.exc # "" THEN [r1 EXCEPT !.ret = ChatResponse(500, FALSE, None), !.exc = ""]
    ELSE IF r1.ret = {} THEN [r1 EXCEPT !.ret = ChatResponse(404, FALSE, None)]
    ELSE respond(r1, One(form.user_id),
                 IF form.message = {} THEN <<>> ELSE strip(One(form.message)),
                 uploaded(form.image, TRUE), uploaded(form.audio, FALSE), ext, now))

(***************************************************************************)
(* The state machine.  disk is the file system under data/; request_json   *)
(* is the body of the HTTP request handled last ({}: none); last is the    *)
(* operation                                                               *)
(* that ran last with what it returned; crashes counts the process         *)
(* terminations so far; registered holds the user ids whose registration   *)
(* was answered with success; procs holds, for each request handler that   *)
(* runs concurrently with another, the call it is in and the values of     *)
(* the call's local variables.                                             *)
(***************************************************************************)
Index(d) == IF d.index.kind = "json" THEN d.index.doc ELSE EmptyIndex
Indexed(d, user_id) == user_id \in DOMAIN Index(d)
\* {} or {record}: what load_user_data returns, {} also when it raises
Load(d, user_id) ==
  Then(load_user_data(d, user_id), LAMBDA r : IF r.exc # "" THEN {} ELSE r.ret)

NoUser == <<>>

Did(op, user_id, r) ==
  [ op             |-> op,
    user_id        |-> user_id,
    ret            |-> r.ret,
    exc            |-> r.exc,
    pre_indexed    |-> user_id # NoUser /\ Indexed(disk, user_id),
    pre_loaded     |-> user_id # NoUser /\ Load(disk, user_id) # {},
    pre_registered |-> user_id \in registered ]

Apply(op, user_id, run) ==
  \E r \in {run} :
    /\ disk' = Final(r)
    /\ last' = Did(op, user_id, r)
    /\ UNCHANGED <<crashes, procs>>

Start ==
  [op |-> "start", user_id |-> NoUser, ret |-> None, exc |-> "",
   pre_indexed |-> FALSE, pre_loaded |-> FALSE, pre_registered |-> FALSE]

\* the request handlers (threads of the server) that run at the same time
Processes == {1, 2}

\* a handler that is in no call; in a call: status "running", then "done".
\* stage is the call of db.py the handler is in, pc the next file-system call;
\* index, path and data are the local variables of these names; target is the
\* canonical file being written, content what is written to it, fd the file
\* the open descriptor of the writer refers to; before is what load_user_data
\* returned for user_id when the call began.
Idle ==
  [ status |-> "idle", op |-> "", user_id |-> NoUser, name |-> <<>>,
    user_message |-> "", bot_response |-> "", stage |-> "", pc |-> "",
    index |-> EmptyIndex, path |-> {}, data |-> {}, target |-> <<>>,
    content |-> NoFile, fd |-> "none", before |-> {}, ret |-> None, exc |-> "" ]

Messages == {"m1"}
Responses == {"r1"}

\* arguments of a direct create_user_file call
ProfileArgs ==
  { NoProfile,
    [age |-> {30}, weight |-> {70}, height |-> {175}, goal |-> {"loss"},
     activity_level |-> {"moderate"}] }

\* profile values a caller stores with save_user_data (db.py's command line)
Settings ==
  { [weight |-> {70}, height |-> {175}, age |-> {30}, gender |-> {"male"},
     activity_level |-> {"moderate"}, goal |-> {"loss"}, surplus |-> {400}],
    [weight |-> {70}, height |-> {175}, age |-> {30}, gender |-> {"female"},
     activity_level |-> {"light"}, goal |-> {"gain"}, surplus |-> {600}] }

with_settings(data, s) ==
  [data EXCEPT !.weight = s.weight, !.height = s.height, !.age = s.age,
               !.gender = s.gender, !.activity_level = s.activity_level,
               !.goal = s.goal, !.surplus = s.surplus]

\* the records a caller passes to save_user_data for user_id
SaveArgs(d, user_id) ==
  Then(Load(d, user_id), LAMBDA loaded :
    { with_settings(IF loaded # {} THEN One(loaded)
                    ELSE initial_data(user_id, <<"a">>, NoProfile, 1), s) : s \in Settings })

RequestUser(req) ==
  IF req = {} \/ One(req).userId = {} THEN NoUser ELSE strip(One(One(req).userId))

Init ==
  /\ disk = EmptyDisk
  /\ last = Start
  /\ crashes = 0
  /\ request_json = {}
  /\ registered = {}
  /\ procs = [p \in Processes |-> Idle]

EnsureDataDir ==
  /\ Apply("ensure_data_dir", NoUser, ensure_data_dir(disk))
  /\ UNCHANGED <<request_json, registered>>

CreateUserFile(u, n, prof, now) ==
  /\ Apply("create_user_file", u, create_user_file(disk, u, n, prof, now))
  /\ UNCHANGED <<request_json, registered>>

SaveUserData(u, data) ==
  /\ Apply("save_user_data", u, save_user_data(disk, u, data))
  /\ UNCHANGED <<request_json, registered>>

\* the model stops appending at MaxChats exchanges
CanChat(d, u) == \A loaded \in {Load(d, u)} : loaded # {} => Len(One(loaded).chats) < MaxChats

AddChat(u, m, b, now) ==
  /\ CanChat(disk, u)
  /\ Apply("add_chat", u, add_chat(disk, u, m, b, now))
  /\ UNCHANGED <<request_json, registered>>

RenameUserFile(u, n) ==
  /\ Apply("rename_user_file", u, rename_user_file(disk, u, n))
  /\ UNCHANGED <<request_json, registered>>

CalculateNutrition(u) ==
  /\ Apply("calculate_nutrition", u, calculate_nutrition(disk, u))
  /\ UNCHANGED <<request_json, registered>>

RegisterUser(req, now) ==
  \E r \in {register_user(disk, req, now)} :
    /\ Apply("register_user", RequestUser(req), r)
    /\ request_json' = req
    /\ registered' = IF r.ret.status = 200 THEN registered \cup {RequestUser(req)}
                     ELSE registered

\* a run the process may be in the middle of: the operation, its user, the run
Call(op, user_id, r) == [op |-> op, user_id |-> user_id, run |-> r]

\* the process terminates between two file-system calls of one of the calls
Crash(calls) ==
  /\ crashes < MaxCrashes
  /\ \E c \in calls : \E k \in 2..(Len(c.run.tr) - 1) :
        /\ disk' = c.run.tr[k]
        /\ last' = [Start EXCEPT !.op = "crash", !.user_id = c.user_id,
                                 !.ret = [kind |-> "crashed", op |-> c.op]]
  /\ crashes' = crashes + 1
  /\ UNCHANGED <<request_json, registered, procs>>

(***************************************************************************)
(* Spec: the record store under direct sequential calls.                   *)
(***************************************************************************)
Next ==
  \/ EnsureDataDir
  \/ \E u \in UserIds, n \in Names, now \in Times : CreateUserFile(u, n, NoProfile, now)
  \/ \E u \in UserIds, m \in Messages, b \in Responses, now \in Times : AddChat(u, m, b, now)
  \/ \E u \in UserIds, n \in Names : RenameUserFile(u, n)

Spec == Init /\ [][Next]_vars

(***************************************************************************)
(* SpecCrash: the multi-step mutations of the store, where the process may *)
(* terminate between two file-system calls and the store is used again.    *)
(* To show what a crash alone does, a rename here always names a location  *)
(* other than the one the index holds (Spec has the other renames).        *)
(***************************************************************************)
MovesFile(d, u, n) == Indexed(d, u) => user_filename(u, n) # Index(d)[u]

CrashUsers == { <<"c">> }

CrashCalls(d) ==
  {Call("ensure_data_dir", NoUser, ensure_data_dir(d))}
  \cup { Call("create_user_file", u, create_user_file(d, u, n, NoProfile, now)) :
           u \in CrashUsers, n \in Names, now \in Times }
  \cup UNION { { Call("save_user_data", u, save_user_data(d, u, data)) :
                   data \in SaveArgs(d, u) } : u \in CrashUsers }
  \cup UNION { { Call("rename_user_file", u, rename_user_file(d, u, n)) :
                   n \in {x \in Names : MovesFile(d, u, x)} } : u \in CrashUsers }

NextCrash ==
  \/ EnsureDataDir
  \/ \E u \in CrashUsers, n \in Names, now \in Times : CreateUserFile(u, n, NoProfile, now)
  \/ \E u \in CrashUsers : \E data \in SaveArgs(disk, u) : SaveUserData(u, data)
  \/ \E u \in CrashUsers, n \in Names : MovesFile(disk, u, n) /\ RenameUserFile(u, n)
  \/ Crash(CrashCalls(disk))

SpecCrash == Init /\ [][NextCrash]_vars

(***************************************************************************)
(* SpecRegister: the HTTP handlers that reach the calculator and the       *)
(* store: POST /api/register and GET /api/nutrition/<user_id>.             *)
(***************************************************************************)
ValidData ==
  [ userId |-> {<<"c">>}, name |-> {<<"a">>}, age |-> Num(30), weight |-> Num(70),
    height |-> Num(175), gender |-> {"male"}, activityLevel |-> {"moderate"},
    goal |-> {"loss"}, surplus |-> Absent ]

\* bodies of registration requests; {} is a request without a JSON body
RegisterRequests ==
  { {},
    {ValidData},
    {[ValidData EXCEPT !.userId = {<<" ", "c">>}, !.name = {<<" ", "A", " ", " ", "b">>},
                       !.gender = {"female"}, !.goal = {"maintenance"}]},
    {[ValidData EXCEPT !.age = Num(10), !.name = {<<"!">>}]},
    {[ValidData EXCEPT !.weight = Malformed, !.goal = {"bulk"}]},
    {[ValidData EXCEPT !.userId = {<<"b", "_", "c">>}, !.gender = {"Male"},
                       !.goal = {"gain"}, !.surplus = Num(350)]},
    {[ValidData EXCEPT !.userId = {<<"b", "_", "c">>}, !.goal = {"gain"},
                       !.surplus = Num(1000)]},
    {[ValidData EXCEPT !.userId = {<<"b", "_", "c">>}, !.name = {<<"!">>},
                       !.goal = {"Gain"}, !.surplus = Num(1000)]},
    {[ValidData EXCEPT !.goal = {"gain"}, !.surplus = Num(0)]},
    {[ValidData EXCEPT !.userId = {<<"b", "_", "c">>}, !.goal = {"Gain"},
                       !.surplus = Malformed]} }

NextRegister ==
  \/ \E req \in RegisterRequests, now \in Times : RegisterUser(req, now)
  \/ \E u \in UserIds : CalculateNutrition(u)

SpecRegister == Init /\ [][NextRegister]_vars

(***************************************************************************)
(* SpecValidate: validate_user_data applied to each request of a grid.     *)
(***************************************************************************)
ValidateRequests ==
  [ userId        : {{}, {<<"c">>}},
    name          : {{<<"a">>}},
    age           : {Absent, Num(0), Num(10), Num(30), Malformed},
    weight        : {Absent, Num(10), Num(70), Malformed},
    height        : {Num(100), Num(175), Malformed},
    gender        : {{}, {"male"}, {"Male"}, {"other"}},
    activityLevel : {{}, {"moderate"}, {"Light"}},
    goal          : {{}, {"loss"}, {"gain"}, {"Gain"}, {"bulk"}},
    surplus       : {Absent, Num(0), Num(350), Num(1000), Malformed} ]

RetErrors(errors) == [kind |-> "errors", val |-> errors]

InitValidate ==
  /\ disk = EmptyDisk
  /\ last = Start
  /\ crashes = 0
  /\ request_json \in { {data} : data \in ValidateRequests }
  /\ registered = {}
  /\ procs = [p \in Processes |-> Idle]

ValidateUserData ==
  /\ request_json # {}
  /\ last' = [Start EXCEPT !.op = "validate_user_data",
                           !.user_id = RequestUser(request_json),
                           !.ret = RetErrors(validate_user_data(One(request_json)))]
  /\ UNCHANGED <<disk, crashes, request_json, registered, procs>>

NextValidate == ValidateUserData

SpecValidate == InitValidate /\ [][NextValidate]_vars

(***************************************************************************)
(* SpecCalc: calculate_nutrition applied to a store that holds one record, *)
(* of user "c", with a profile of a grid; user "b_c" has no record.        *)
(***************************************************************************)
\* profiles that pass every check of validate_inputs
ValidProfiles ==
  [ weight         : {{30}, {70}, {300}},
    height         : {{120}, {174}, {175}, {250}},
    age            : {{15}, {30}, {90}},
    gender         : {{"male"}, {"female"}, {"Male"}},
    activity_level : { {x} : x \in ActivityValid },
    goal           : {{"loss"}, {"gain"}, {"maintenance"}, {"Gain"}},
    surplus        : {{}, {300}, {455}, {500}} ]

\* profiles with missing, zero, out-of-range and unknown values
EdgeProfiles ==
  [ weight         : {{}, {0}, {29}, {70}, {301}},
    height         : {{}, {119}, {175}, {251}},
    age            : {{}, {14}, {30}, {91}},
    gender         : {{}, {"male"}, {"other"}},
    activity_level : {{}, {"light"}, {"Light"}},
    goal           : {{}, {"loss"}, {"gain"}, {"bulk"}},
    surplus        : {{}, {299}, {400}, {501}} ]

StoredProfiles == ValidProfiles \cup EdgeProfiles

\* the nutrition field of a record: none yet, or the results of an earlier profile
StaleNutrition ==
  nutrition_results(with_settings(initial_data(<<"c">>, <<"a">>, NoProfile, 1),
                                  CHOOSE s \in Settings : s.goal = {"loss"})).val

PreviousNutrition == { {}, {StaleNutrition} }

StoredDisk(p, prev) ==
  [EmptyDisk EXCEPT
     !.data_dir = TRUE,
     !.users_dir = TRUE,
     !.index = Json(with_entry(EmptyIndex, <<"c">>, user_filename(<<"c">>, <<"a">>))),
     !.files[user_filename(<<"c">>, <<"a">>)] =
        Json([with_settings(initial_data(<<"c">>, <<"a">>, NoProfile, 1), p)
                EXCEPT !.nutrition = prev])]

InitCalc ==
  /\ disk \in { StoredDisk(p, prev) : p \in StoredProfiles, prev \in PreviousNutrition }
  /\ last = Start
  /\ crashes = 0
  /\ request_json = {}
  /\ registered = {}
  /\ procs = [p \in Processes |-> Idle]

NextCalc == \E u \in UserIds : CalculateNutrition(u)

SpecCalc == InitCalc /\ [][NextCalc]_vars

(***************************************************************************)
(* SpecSave: the store under sequential create, save and rename calls.     *)
(***************************************************************************)
NextSave ==
  \/ EnsureDataDir
  \/ \E u \in UserIds, n \in Names, now \in Times : CreateUserFile(u, n, NoProfile, now)
  \/ \E u \in UserIds : \E data \in SaveArgs(disk, u) : SaveUserData(u, data)
  \/ \E u \in UserIds, n \in Names : RenameUserFile(u, n)

SpecSave == Init /\ [][NextSave]_vars

(***************************************************************************)
(* SpecRace: two request handlers run create_user_file and add_chat at the *)
(* same time (app.run serves each request in a thread of its own).  One    *)
(* step is one file-system call: open(.., "w") creates or truncates the    *)
(* file, the end of the with block writes the text through the open        *)
(* descriptor, os.replace moves the temporary file over the canonical one. *)
(* The existence checks of ensure_data_dir are taken together with the     *)
(* read that follows them: data/index.json, once there, is never removed.  *)
(* Before the handlers start, the store is filled by sequential calls.     *)
(***************************************************************************)
RaceNames == { <<"a">> }

\* the message and the answer of the chat request that handler p serves
RaceMessage(p) == IF p = 1 THEN "m1" ELSE "m2"
RaceResponse(p) == IF p = 1 THEN "r1" ELSE "r2"

\* the canonical file a write is for: data/index.json or a record file
IndexFile == <<"index">>
Canonical(d, t) == IF t = IndexFile THEN d.index ELSE d.files[t]
Temporary(d, t) == IF t = IndexFile THEN d.index_tmp ELSE d.tmps[t]
PutCanonical(d, t, f) ==
  IF t = IndexFile THEN [d EXCEPT !.index = f] ELSE [d EXCEPT !.files[t] = f]
PutTemporary(d, t, f) ==
  IF t = IndexFile THEN [d EXCEPT !.index_tmp = f] ELSE [d EXCEPT !.tmps[t] = f]

\* the number of characters json.dump(index, indent=4) writes
RECURSIVE IndexSize(_, _)
IndexSize(index, users) ==
  IF users = {} THEN 2
  ELSE LET u == CHOOSE x \in users : TRUE
       IN  23 + Len(u) + Len(index[u]) + IndexSize(index, users \ {u})

\* the length of the text of file f at t; record files of one user are compared
\* only with each other, and differ in the name and the number of exchanges
Size(t, f) ==
  IF f.kind # "json" THEN 0
  ELSE IF t = IndexFile THEN IndexSize(f.doc, DOMAIN f.doc)
  ELSE Len(f.doc.name) + 100 * Len(f.doc.chats)

\* the file after content is written at offset 0 over old without truncating:
\* what is left of a longer old text makes the file unreadable
Written(t, old, content) == IF Size(t, content) < Size(t, old) THEN Partial ELSE content

\* the call returns or raises
Finish(pr, ret, exc) ==
  [pr EXCEPT !.status = "done", !.stage = "", !.pc = "", !.index = EmptyIndex,
             !.path = {}, !.target = <<>>, !.content = NoFile, !.fd = "none",
             !.ret = ret, !.exc = exc]

\* tmp = path + ".tmp"; with open(tmp, "w") as f: json.dump(..); os.replace(tmp, path)
StartWrite(pr, target, content) ==
  [pr EXCEPT !.pc = "open", !.target = target, !.content = content]

\* create_user_file returns path (line 51 or line 74), to add_chat at line 102
create_returned(pr, path) ==
  IF pr.op = "create_user_file" THEN Finish(pr, RetPath(path), "")
  ELSE [pr EXCEPT !.stage = "load2", !.pc = "load_index", !.index = EmptyIndex,
                  !.target = <<>>, !.content = NoFile]

\* load_user_data returns data ({}: None) to add_chat: lines 100-109
add_chat_loaded(pr, data, now) ==
  IF data = {}
  THEN IF pr.stage = "load1"
       THEN [pr EXCEPT !.stage = "create", !.name = Unknown, !.pc = "load_index", !.path = {}]
       ELSE Finish(pr, None, "AttributeError")
  ELSE [pr EXCEPT !.stage = "save", !.pc = "load_index", !.path = {},
                  !.data = {[One(data) EXCEPT !.chats =
                               Append(@, Exchange(pr.user_message, pr.bot_response, now))]}]

\* load_index returned index to create_user_file (line 49), get_user_file_path
\* of load_user_data (line 82) or of save_user_data (line 89)
index_loaded(pr, index, now) ==
  IF pr.stage = "create"
  THEN IF pr.user_id \in DOMAIN index THEN create_returned(pr, index[pr.user_id])
       ELSE StartWrite([pr EXCEPT !.index = index], user_filename(pr.user_id, pr.name),
                       Json(initial_data(pr.user_id, pr.name, NoProfile, now)))
  ELSE IF pr.stage = "save"
  THEN IF pr.user_id \in DOMAIN index
       THEN StartWrite(pr, index[pr.user_id], Json(One(pr.data)))
       ELSE Finish(pr, None, "")
  ELSE IF pr.user_id \in DOMAIN index
       THEN [pr EXCEPT !.path = {index[pr.user_id]}, !.pc = "read_file"]
       ELSE add_chat_loaded(pr, {}, now)

\* os.replace(tmp, path) returned: lines 72-74 of create_user_file, line 30 of
\* save_index, line 96 of save_user_data
replaced(pr) ==
  IF pr.stage = "save" THEN Finish(pr, None, "")
  ELSE IF pr.target = IndexFile
  THEN create_returned(pr, user_filename(pr.user_id, pr.name))
  ELSE StartWrite(pr, IndexFile, Json(with_entry(pr.index, pr.user_id, pr.target)))

\* the temporary file of t was moved over the canonical file while pr holds a
\* descriptor for writing: the descriptor follows the file
moved(pr, t) ==
  IF pr.pc \in {"dump", "dump_index"} /\ pr.target = t
  THEN [pr EXCEPT !.fd = IF @ = "tmp" THEN "canonical" ELSE "gone"]
  ELSE pr

Quiet == \A p \in Processes : procs[p].status = "idle"

BeginCreateUserFile(p, u, n) ==
  /\ procs[p].status = "idle"
  /\ procs' = [procs EXCEPT ![p] =
                 [Idle EXCEPT !.status = "running", !.op = "create_user_file",
                              !.user_id = u, !.name = n, !.stage = "create",
                              !.pc = "load_index"]]
  /\ UNCHANGED <<disk, last, crashes, request_json, registered>>

BeginAddChat(p, u) ==
  /\ procs[p].status = "idle"
  /\ procs' = [procs EXCEPT ![p] =
                 [Idle EXCEPT !.status = "running", !.op = "add_chat", !.user_id = u,
                              !.user_message = RaceMessage(p),
                              !.bot_response = RaceResponse(p),
                              !.before = Load(disk, u),
                              !.stage = "load1", !.pc = "load_index"]]
  /\ UNCHANGED <<disk, last, crashes, request_json, registered>>

\* ensure_data_dir up to the check of line 17, and with the index file there
\* json.load of line 24
LoadIndex(p) ==
  /\ procs[p].pc = "load_index"
  /\ IF disk.index = NoFile
     THEN /\ disk' = [disk EXCEPT !.data_dir = TRUE, !.users_dir = TRUE]
          /\ procs' = [procs EXCEPT ![p].pc = "open_index"]
     ELSE /\ UNCHANGED disk
          /\ \E now \in Times :
               procs' = [procs EXCEPT ![p] =
                           IF disk.index.kind = "partial"
                           THEN Finish(@, None, "JSONDecodeError")
                           ELSE index_loaded(@, disk.index.doc, now)]
  /\ UNCHANGED <<last, crashes, request_json, registered>>

\* line 18: open(INDEX_FILE, "w")
OpenIndex(p) ==
  /\ procs[p].pc = "open_index"
  /\ disk' = [disk EXCEPT !.index = Partial]
  /\ procs' = [procs EXCEPT ![p].pc = "dump_index", ![p].fd = "canonical",
                            ![p].target = IndexFile]
  /\ UNCHANGED <<last, crashes, request_json, registered>>

\* line 19: json.dump({}, f) and the end of the with block
DumpIndex(p) ==
  /\ procs[p].pc = "dump_index"
  /\ disk' = IF procs[p].fd = "canonical"
             THEN [disk EXCEPT !.index = Written(IndexFile, @, Json(EmptyIndex))]
             ELSE disk
  /\ procs' = [procs EXCEPT ![p].pc = "load_index", ![p].fd = "none", ![p].target = <<>>]
  /\ UNCHANGED <<last, crashes, request_json, registered>>

\* lines 83-86 of load_user_data
ReadFile(p) ==
  /\ procs[p].pc = "read_file"
  /\ \E f \in {disk.files[One(procs[p].path)]}, now \in Times :
       procs' = [procs EXCEPT ![p] =
                   IF f.kind = "partial" THEN Finish(@, None, "JSONDecodeError")
                   ELSE add_chat_loaded(@, IF f.kind = "json" THEN {f.doc} ELSE {}, now)]
  /\ UNCHANGED <<disk, last, crashes, request_json, registered>>

\* with open(tmp, "w"): lines 28, 68 and 93
OpenTmp(p) ==
  /\ procs[p].pc = "open"
  /\ disk' = PutTemporary(disk, procs[p].target, Partial)
  /\ procs' = [procs EXCEPT ![p].pc = "dump", ![p].fd = "tmp"]
  /\ UNCHANGED <<last, crashes, request_json, registered>>

\* json.dump and the end of the with block: lines 29, 69 and 94
DumpTmp(p) ==
  /\ procs[p].pc = "dump"
  /\ \E pr \in {procs[p]} :
       disk' = IF pr.fd = "tmp"
               THEN PutTemporary(disk, pr.target,
                                 Written(pr.target, Temporary(disk, pr.target), pr.content))
               ELSE IF pr.fd = "canonical"
               THEN PutCanonical(disk, pr.target,
                                 Written(pr.target, Canonical(disk, pr.target), pr.content))
               ELSE disk
  /\ procs' = [procs EXCEPT ![p].pc = "replace", ![p].fd = "none"]
  /\ UNCHANGED <<last, crashes, request_json, registered>>

\* os.replace(tmp, path): lines 30, 70 and 95
ReplaceTmp(p) ==
  /\ procs[p].pc = "replace"
  /\ \E t \in {procs[p].target} :
       IF Temporary(disk, t) = NoFile
       THEN /\ procs' = [procs EXCEPT ![p] = Finish(@, None, "FileNotFoundError")]
            /\ UNCHANGED disk
       ELSE /\ disk' = PutTemporary(PutCanonical(disk, t, Temporary(disk, t)), t, NoFile)
            /\ procs' = [q \in Processes |->
                           IF q = p THEN replaced(procs[q]) ELSE moved(procs[q], t)]
  /\ UNCHANGED <<last, crashes, request_json, registered>>

NextRace ==
  \/ \E u \in UserIds, n \in RaceNames, now \in Times :
       Quiet /\ CreateUserFile(u, n, NoProfile, now)
  \/ \E u \in UserIds, m \in Messages, b \in Responses, now \in Times :
       Quiet /\ AddChat(u, m, b, now)
  \/ \E p \in Processes, u \in UserIds, n \in RaceNames : BeginCreateUserFile(p, u, n)
  \/ \E p \in Processes, u \in UserIds : BeginAddChat(p, u)
  \/ \E p \in Processes : LoadIndex(p)
  \/ \E p \in Processes : OpenIndex(p)
  \/ \E p \in Processes : DumpIndex(p)
  \/ \E p \in Processes : ReadFile(p)
  \/ \E p \in Processes : OpenTmp(p)
  \/ \E p \in Processes : DumpTmp(p)
  \/ \E p \in Processes : ReplaceTmp(p)

SpecRace == Init /\ [][NextRace]_vars

(***************************************************************************)
(* SpecApp: the store behind the HTTP handlers POST /api/register,         *)
(* GET /api/nutrition/<user_id> and POST /api/chat, with direct            *)
(* rename_user_file calls.                                                 *)
(***************************************************************************)
MaxAnalyses == 1

Upload(filename, bytes) == [filename |-> filename, bytes |-> bytes]

NoForm == [user_id |-> {}, message |-> {}, image |-> {}, audio |-> {}]
Png == Upload(<<"a", ".", "p", "n", "g">>, 1)
Wav == Upload(<<"a", ".", "w", "a", "v">>, 1)

\* the requests of the model: text, image and voice alone and together, a
\* message of white space, an upload with a name that is not allowed, an
\* empty upload, no input, no user id
ChatForms ==
  { [NoForm EXCEPT !.user_id = {<<"c">>}, !.message = {<<"m">>}],
    [NoForm EXCEPT !.user_id = {<<"b", "_", "c">>}, !.message = {<<" ", "m">>}],
    [NoForm EXCEPT !.user_id = {<<"c">>}, !.image = {Png}],
    [NoForm EXCEPT !.user_id = {<<"b", "_", "c">>}, !.message = {<<" ">>}, !.image = {Png}],
    [NoForm EXCEPT !.user_id = {<<"c">>}, !.audio = {Wav}],
    [NoForm EXCEPT !.user_id = {<<"b", "_", "c">>}, !.message = {<<"m">>},
                   !.image = {Upload(<<"a", ".", "b">>, 1)}, !.audio = {Wav}],
    [NoForm EXCEPT !.user_id = {<<"c">>}, !.image = {Upload(<<"a", ".", "g", "i", "f">>, 0)}],
    [NoForm EXCEPT !.user_id = {<<"c">>}],
    [NoForm EXCEPT !.message = {<<"m">>}] }

Answers == [ready |-> TRUE, voice |-> <<"v">>, image |-> "i1", llm |-> {"r1"}]

\* the collaborators answer, or one of them fails
ExternalResults ==
  { Answers,
    [Answers EXCEPT !.ready = FALSE],
    [Answers EXCEPT !.voice = ErrorPrefix],
    [Answers EXCEPT !.llm = {}] }

\* the requests and the collaborators' results that SpecApp serves
AppForms == { form \in ChatForms : form.user_id # {} /\ form.image \in {{}, {Png}} }

AppResults == { ext \in ExternalResults : ext.ready /\ ext.voice = <<"v">> }

\* registrations: two users whose records get one location, a surplus the
\* calculator accepts and one it rejects
AppRequests ==
  { {[ValidData EXCEPT !.userId = {<<" ", "c">>}, !.name = {<<" ", "A", " ", " ", "b">>},
                       !.gender = {"female"}, !.goal = {"maintenance"}]},
    {[ValidData EXCEPT !.userId = {<<"b", "_", "c">>}, !.gender = {"Male"},
                       !.goal = {"gain"}, !.surplus = Num(350)]},
    {[ValidData EXCEPT !.userId = {<<"b", "_", "c">>}, !.goal = {"gain"},
                       !.surplus = Num(1000)]} }

AppNames == { <<"!">> }

\* no handler decides by the clock: SpecApp stamps with one time
AppTimes == {1}

FormUser(form) == IF form.user_id = {} THEN NoUser ELSE One(form.user_id)

\* the model serves a request when the record it leaves holds at most MaxChats
\* exchanges and MaxAnalyses image analyses
Bounded(d, u) ==
  \A loaded \in {Load(d, u)} :
    loaded # {} => /\ Len(One(loaded).chats) <= MaxChats
                   /\ Len(One(loaded).image_analyses) <= MaxAnalyses

Chat(form, ext, now) ==
  \E r \in {chat(disk, form, ext, now)} :
    /\ Bounded(Final(r), FormUser(form))
    /\ Apply("chat", FormUser(form), r)
    /\ UNCHANGED <<request_json, registered>>

NextApp ==
  \/ \E req \in AppRequests, now \in AppTimes : RegisterUser(req, now)
  \/ \E u \in UserIds : CalculateNutrition(u)
  \/ \E form \in AppForms, ext \in AppResults, now \in AppTimes : Chat(form, ext, now)
  \/ \E u \in UserIds, n \in AppNames : RenameUserFile(u, n)

SpecApp == Init /\ [][NextApp]_vars

(***************************************************************************)
(* C1: create_user_file is idempotent.  In every reachable state, for      *)
(* every user_id the index holds and any name, profile arguments and time, *)
(* create_user_file returns the location the index holds for user_id and   *)
(* makes no change to the file system (the index file, every record file   *)
(* and every temporary file stay as they are).                             *)
(***************************************************************************)
C1_CreateIdempotent ==
  \A u \in UserIds :
    Indexed(disk, u) =>
      \A n \in AllNames, prof \in ProfileArgs, now \in Times :
        \A r \in {create_user_file(disk, u, n, prof, now)} :
          /\ r.exc = ""
          /\ r.ret = RetPath(Index(disk)[u])
          /\ r.tr = <<disk>>

\* create_user_file was called for an indexed user whose record holds a chat
C1_Witness ==
  /\ last.op = "create_user_file"
  /\ last.pre_indexed
  /\ last.ret = RetPath(Index(disk)[last.user_id])
  /\ \E loaded \in {Load(disk, last.user_id)} : loaded # {} /\ One(loaded).chats # <<>>

(***************************************************************************)
(* C2: the index and the file system stay consistent across crashes.  In   *)
(* every reachable state, also after the process terminated between two    *)
(* steps of an operation, every user_id of the index maps to a location    *)
(* where a record file exists, so load_user_data does not return None.     *)
(***************************************************************************)
C2_IndexedFilesExist ==
  \A u \in UserIds : Indexed(disk, u) => Load(disk, u) # {}

(***************************************************************************)
(* C3: no partial file at a canonical location.  In every reachable state, *)
(* also after a crash in the middle of a write, the index file and every   *)
(* record file is absent or one complete JSON document.                    *)
(***************************************************************************)
C3_NoPartialCanonical ==
  /\ disk.index.kind # "partial"
  /\ \A p \in Locations : disk.files[p].kind # "partial"

(***************************************************************************)
(* C4: a record is never deleted.  If load_user_data(user_id) returned a   *)
(* record before an operation on that user_id, it returns a record after   *)
(* it.                                                                     *)
(***************************************************************************)
C4_RecordNeverDeleted ==
  (last.user_id # NoUser /\ last.pre_loaded) => Load(disk, last.user_id) # {}

(***************************************************************************)
(* C5: every user has a location of its own.  The index never maps two     *)
(* user ids to the same location.                                          *)
(***************************************************************************)
C5_UniqueLocations ==
  \A u1, u2 \in UserIds :
    (u1 # u2 /\ Indexed(disk, u1) /\ Indexed(disk, u2)) => Index(disk)[u1] # Index(disk)[u2]

(***************************************************************************)
(* C6: a duplicate registration is a conflict.  As the claim states it:    *)
(* every registration request for a user_id that was registered before is  *)
(* answered with the conflict status 409.                                  *)
(***************************************************************************)
C6_DuplicateIsConflict ==
  (last.op = "register_user" /\ last.pre_registered) => last.ret.status = 409

(***************************************************************************)
(* C6 as amended: in every reachable state, a registration request that    *)
(* passes validation and names a user_id that was registered before is     *)
(* answered with the conflict status 409, not success, and writes nothing: *)
(* the index, the stored record and every other file stay as they are.     *)
(***************************************************************************)
C6_ValidDuplicateIsConflict ==
  \A req \in RegisterRequests, now \in Times :
    (/\ req # {}
     /\ validate_user_data(One(req)) = <<>>
     /\ RequestUser(req) \in registered)
    => \A r \in {register_user(disk, req, now)} :
         /\ r.ret.status = 409
         /\ ~r.ret.success
         /\ r.exc = ""
         /\ r.tr = <<disk>>

\* a valid request with another name for a registered user was answered 409
C6_Witness ==
  /\ last.op = "register_user"
  /\ last.pre_registered
  /\ last.ret.status = 409
  /\ request_json # {}
  /\ \E loaded \in {Load(disk, last.user_id)} :
       loaded # {} /\ One(loaded).name # One(One(request_json).name)

(***************************************************************************)
(* C7: validate_user_data collects all violations.  For the request        *)
(* validated last, every check the request violates has its message in the *)
(* returned list: a required field that is missing, age, weight or height  *)
(* outside its range, a gender, activity level or goal outside its enum, a *)
(* surplus outside [300,500] with goal gain, and the invalid-format error  *)
(* when a numeric field is malformed, each independently of the others.    *)
(* (The surplus check is taken as the code states it, for the goal written *)
(* "gain"; C8 is about the other spellings.)                               *)
(***************************************************************************)
OutOfRange(x, lo, hi) == x.t = "num" /\ x.v # 0 /\ ~(lo <= x.v /\ x.v <= hi)

\* {msg} when the check is violated, else {}
Violated(cond, msg) == IF cond THEN {msg} ELSE {}

C7_Violations(data) ==
  Violated(data.userId = {}, "userId is required")
  \cup Violated(data.name = {}, "name is required")
  \cup Violated(~truthy(data.age), "age is required")
  \cup Violated(~truthy(data.weight), "weight is required")
  \cup Violated(~truthy(data.height), "height is required")
  \cup Violated(data.gender = {}, "gender is required")
  \cup Violated(data.activityLevel = {}, "activityLevel is required")
  \cup Violated(data.goal = {}, "goal is required")
  \cup Violated(OutOfRange(data.age, 15, 90), ErrAge)
  \cup Violated(OutOfRange(data.weight, 30, 300), ErrWeight)
  \cup Violated(OutOfRange(data.height, 120, 250), ErrHeight)
  \cup Violated(data.gender # {} /\ lower_word(One(data.gender)) \notin {"male", "female"},
                ErrGender)
  \cup Violated(data.activityLevel # {} /\ One(data.activityLevel) \notin ActivityValid,
                ErrActivity)
  \cup Violated(/\ data.goal # {}
                /\ lower_word(One(data.goal)) \notin {"loss", "gain", "maintenance"},
                ErrGoal)
  \cup Violated(data.goal = {"gain"} /\ OutOfRange(data.surplus, 300, 500), ErrSurplus)
  \cup Violated(\/ Malformed \in {data.age, data.weight, data.height}
                \/ (data.goal = {"gain"} /\ data.surplus = Malformed),
                ErrFormat)

C7_AllViolationsCollected ==
  (last.op = "validate_user_data" /\ request_json # {})
  => \A msg \in C7_Violations(One(request_json)) :
       \E i \in DOMAIN last.ret.val : last.ret.val[i] = msg

(***************************************************************************)
(* C8: an out-of-range surplus is rejected at validation for goal gain.    *)
(* For the registration request handled last, if its goal is gain in a     *)
(* letter case the goal check accepts and its surplus is an integer        *)
(* outside [300,500], validate_user_data returns errors for it, the        *)
(* response is not a success, and no record was created for its user_id.   *)
(***************************************************************************)
SurplusOutOfRange(req) ==
  /\ req # {}
  /\ One(req).goal # {}
  /\ lower_word(One(One(req).goal)) = "gain"
  /\ One(req).surplus.t = "num"
  /\ ~(300 <= One(req).surplus.v /\ One(req).surplus.v <= 500)

C8_SurplusRejected ==
  (last.op = "register_user" /\ SurplusOutOfRange(request_json))
  => /\ validate_user_data(One(request_json)) # <<>>
     /\ ~last.ret.success
     /\ (~last.pre_loaded => Load(disk, last.user_id) = {})

(***************************************************************************)
(* C9: the calculation pipeline matches the stated formulas.  In every     *)
(* reachable state, for every user whose stored profile passes the range   *)
(* and enum checks, calculate_nutrition returns and stores                 *)
(*   BMR = round(10w + 6.25h - 5a + 5) (male), round(10w + 6.25h - 5a -    *)
(*   161) (female), TDEE = round(bmr x factor), Goal Calories = round(tdee *)
(*   - 500 | tdee + surplus | tdee), protein and carbs = round(calories x  *)
(*   share / 4), fat = round(calories x share / 9),                        *)
(* with bmr, tdee and calories not rounded in between, and every gram      *)
(* value is a non-negative integer.  The formulas are stated in 1/4 kcal   *)
(* (BMR) and 1/4000 kcal (TDEE, calories), where they are exact.           *)
(***************************************************************************)
PassesChecks(data) ==
  /\ data.weight # {} /\ data.height # {} /\ data.age # {}
  /\ data.gender # {} /\ data.activity_level # {} /\ data.goal # {}
  /\ One(data.weight) \in 30..300
  /\ One(data.height) \in 120..250
  /\ One(data.age) \in 15..90
  /\ lower_word(One(data.gender)) \in {"male", "female"}
  /\ One(data.activity_level) \in ActivityValid
  /\ lower_word(One(data.goal)) \in {"loss", "gain", "maintenance"}
  /\ (lower_word(One(data.goal)) = "gain" /\ data.surplus # {})
       => One(data.surplus) \in 300..500

\* 4 x (10w + 6.25h - 5a + 5) and 4 x (10w + 6.25h - 5a - 161)
C9_Bmr4(data) ==
  4 * 10 * One(data.weight) + 25 * One(data.height) - 4 * 5 * One(data.age)
  + (IF lower_word(One(data.gender)) = "male" THEN 4 * 5 ELSE 0 - 4 * 161)

\* 1000 x the activity factor
C9_Factor(data) ==
  CASE One(data.activity_level) = "sedentary" -> 1200
    [] One(data.activity_level) = "light" -> 1375
    [] One(data.activity_level) = "moderate" -> 1550
    [] One(data.activity_level) = "very_active" -> 1725
    [] One(data.activity_level) = "extra_active" -> 1900

\* 4000 x the calorie target
C9_Calories(data) ==
  CASE lower_word(One(data.goal)) = "loss" -> C9_Bmr4(data) * C9_Factor(data) - 4000 * 500
    [] lower_word(One(data.goal)) = "gain" ->
         C9_Bmr4(data) * C9_Factor(data)
         + 4000 * (IF data.surplus = {} THEN 400 ELSE One(data.surplus))
    [] lower_word(One(data.goal)) = "maintenance" -> C9_Bmr4(data) * C9_Factor(data)

\* the shares of protein, carbs and fat in percent
C9_Shares(data) ==
  CASE lower_word(One(data.goal)) = "loss" -> <<40, 30, 30>>
    [] lower_word(One(data.goal)) = "gain" -> <<35, 40, 25>>
    [] lower_word(One(data.goal)) = "maintenance" -> <<30, 40, 30>>

C9_Matches(res, data) ==
  /\ res.BMR = round(C9_Bmr4(data), 4)
  /\ res.TDEE = round(C9_Bmr4(data) * C9_Factor(data), 4000)
  /\ res.Goal_Calories = round(C9_Calories(data), 4000)
  /\ res.Macros.protein_g = round(C9_Calories(data) * C9_Shares(data)[1], 4000 * 100 * 4)
  /\ res.Macros.carbs_g = round(C9_Calories(data) * C9_Shares(data)[2], 4000 * 100 * 4)
  /\ res.Macros.fat_g = round(C9_Calories(data) * C9_Shares(data)[3], 4000 * 100 * 9)
  /\ C9_Shares(data)[1] + C9_Shares(data)[2] + C9_Shares(data)[3] = 100
  /\ res.Macros.protein_g \in Nat /\ res.Macros.carbs_g \in Nat /\ res.Macros.fat_g \in Nat

C10_FailedCalculationChangesNothing ==
  \A u \in UserIds : \A loaded \in {Load(disk, u)} :
    (loaded = {} \/ ~PassesChecks(One(loaded)))
    => \A r \in {calculate_nutrition(disk, u)} :
         /\ r.exc = ""
         /\ r.ret.kind = "error"
         /\ r.ret.msg # ""
         /\ r.tr = <<disk>>
         /\ Load(Final(r), u) = loaded

\* a calculation on a record with goal gain and a surplus outside the range
\* returned the error and the record still holds its earlier results
C10_Witness ==
  /\ last.op = "calculate_nutrition"
  /\ last.ret = RetError("For muscle gain, surplus must be between 300 and 500 kcal")
  /\ \E loaded \in {Load(disk, last.user_id)} :
       loaded # {} /\ One(loaded).nutrition = {StaleNutrition}

(***************************************************************************)
(* C11: add_chat falls back to a placeholder.  In every reachable state,   *)
(* for every user_id for which load_user_data returns None (no index       *)
(* entry, or an index entry whose file is missing), add_chat(user_id, m,   *)
(* b) returns without raising, leaves a record of user_id whose name is    *)
(* "unknown", and the exchange (m, b) is the last one get_chats(user_id)   *)
(* returns afterwards.                                                     *)
(***************************************************************************)
C11_AppendFallsBack ==
  \A u \in UserIds, m \in Messages, b \in Responses, now \in Times :
    Load(disk, u) = {}
    => \A r \in {add_chat(disk, u, m, b, now)} :
         /\ r.exc = ""
         /\ \E loaded \in {Load(Final(r), u)} :
              loaded # {} /\ One(loaded).name = Unknown
         /\ \E chats \in {get_chats(Final(r), u).ret} :
              chats # <<>> /\ chats[Len(chats)] = Exchange(m, b, now)

C13_DistinctUsersDoNotContend ==
  ( /\ \A p \in Processes : procs[p].status = "done" /\ procs[p].op = "create_user_file"
    /\ procs[1].user_id # procs[2].user_id )
  => \A p \in Processes :
       /\ procs[p].exc = ""
       /\ Indexed(disk, procs[p].user_id)
       /\ \E loaded \in {Load(disk, procs[p].user_id)} :
            loaded # {} /\ One(loaded).user_id = procs[p].user_id

(***************************************************************************)
(* C14: two add_chat calls on one user are last-write-wins.  While two     *)
(* handlers run add_chat for the same user id, whose record existed when   *)
(* each call began, the canonical record file always holds one complete    *)
(* JSON document; and when both calls have ended, neither has raised and   *)
(* the stored record is the record one of the two calls built: what that   *)
(* call found stored when it began, plus its own exchange at the end.      *)
(***************************************************************************)
C14_SameUserLastWriteWins ==
  \A u \in UserIds :
    ( \A p \in Processes : /\ procs[p].op = "add_chat"
                           /\ procs[p].user_id = u
                           /\ procs[p].before # {} )
    => /\ Indexed(disk, u) /\ disk.files[Index(disk)[u]].kind = "json"
       /\ (\A p \in Processes : procs[p].status = "done")
          => /\ \A p \in Processes : procs[p].exc = ""
             /\ \E p \in Processes, now \in Times :
                  Load(disk, u) =
                    { [One(procs[p].before) EXCEPT !.chats =
                         Append(@, Exchange(procs[p].user_message,
                                            procs[p].bot_response, now))] }

(***************************************************************************)
(* C15: the postcondition of rename_user_file.  In every reachable state,  *)
(* for every user id whose record load_user_data returns and every new     *)
(* name, rename_user_file returns the location derived from the new name   *)
(* and the user id without raising; afterwards the index maps the user id  *)
(* to that location, the file there holds this record, and load_user_data  *)
(* returns the record as it was with only the name replaced.               *)
(***************************************************************************)
C15_RenamePostcondition ==
  \A u \in UserIds, n \in Names :
    \A before \in {Load(disk, u)} :
      before # {} =>
        \A r \in {rename_user_file(disk, u, n)} :
          /\ r.exc = ""
          /\ r.ret = RetPath(user_filename(u, n))
          /\ Indexed(Final(r), u)
          /\ Index(Final(r))[u] = user_filename(u, n)
          /\ Final(r).files[user_filename(u, n)] = Json([One(before) EXCEPT !.name = n])
          /\ Load(Final(r), u) = {[One(before) EXCEPT !.name = n]}

(***************************************************************************)
(* C16: the chat log is append-only under sequential use.  Every step of   *)
(* sequential create_user_file, add_chat and rename_user_file calls leaves *)
(* the chats stored for every user id a prefix of the chats stored         *)
(* afterwards: add_chat on a user id makes them one exchange longer, and   *)
(* every other call leaves them as they were.                              *)
(***************************************************************************)
IsPrefix(s, t) == Len(s) <= Len(t) /\ SubSeq(t, 1, Len(s)) = s

\* the chats of the record load_user_data returns; none without a record
StoredChats(d, u) == Then(Load(d, u), LAMBDA loaded :
                       IF loaded = {} THEN <<>> ELSE One(loaded).chats)

C16_ChatsAppendOnly ==
  [][ \A u \in UserIds :
        \E before \in {StoredChats(disk, u)}, after \in {StoredChats(disk', u)} :
          /\ IsPrefix(before, after)
          /\ Len(after) = IF last'.op = "add_chat" /\ last'.user_id = u
                          THEN Len(before) + 1 ELSE Len(before) ]_vars

(***************************************************************************)
(* C17: nutrition is a derived field.  In every state reachable through    *)
(* registration, nutrition query, chat and rename, the nutrition field of  *)
(* every stored record is empty or equal to what the calculation yields    *)
(* for the weight, height, age, gender, activity level, goal and surplus   *)
(* stored in that record; and a calculate_nutrition call that returns      *)
(* results leaves the record as it was with exactly these results as its   *)
(* nutrition field.                                                        *)
(***************************************************************************)
Derived(rec) ==
  rec.nutrition # {} =>
    /\ ~lacks_required(rec)
    /\ \E res \in {nutrition_results(rec)} : res.exc = "" /\ rec.nutrition = {res.val}

C17_NutritionDerived ==
  /\ \A p \in Locations : disk.files[p].kind = "json" => Derived(disk.files[p].doc)
  /\ \A u \in UserIds :
       \A r \in {calculate_nutrition(disk, u)} :
         (r.exc = "" /\ r.ret.kind = "nutrition") =>
           \E before \in {Load(disk, u)} :
             /\ before # {}
             /\ Load(Final(r), u) = {[One(before) EXCEPT !.nutrition = {r.ret.val}]}

\* a record with an exchange, an image analysis and results computed with
\* a surplus other than the default is stored after a rename
C17_Witness ==
  /\ last.op = "rename_user_file" /\ last.exc = ""
  /\ \E p \in Locations :
       /\ disk.files[p].kind = "json"
       /\ \E rec \in {disk.files[p].doc} :
            /\ rec.nutrition # {} /\ rec.surplus = {350}
            /\ rec.chats # <<>> /\ rec.image_analyses # <<>>
            /\ rec.name = <<"!">>

(***************************************************************************)
(* C18: every answered chat request is logged.  In every reachable state,  *)
(* a chat request for a user id whose record exists, that carries a        *)
(* message, an image or audio and for which the LLM returns a response, is *)
(* answered with that response and leaves the chats of the user one        *)
(* exchange longer, the new last exchange holding the response; a chat     *)
(* request for a user id without a record fails, and leaves every record   *)
(* file and the index as they were.                                        *)
(***************************************************************************)
HasInput(form) ==
  \/ form.message # {} /\ strip(One(form.message)) # <<>>
  \/ has_bytes(uploaded(form.image, TRUE))
  \/ has_bytes(uploaded(form.audio, FALSE))

\* the collaborators are set up, the voice input (if any) is understood and
\* the LLM chain returns a response
Answered(form, ext) ==
  /\ ext.ready
  /\ ext.llm # {}
  /\ has_bytes(uploaded(form.audio, FALSE)) => ~startswith(ext.voice, ErrorPrefix)

C18_AnsweredChatsLogged ==
  \A form \in ChatForms, ext \in ExternalResults, now \in AppTimes :
    form.user_id # {} =>
      \E u \in {FormUser(form)} :
        \E before \in {Load(disk, u)}, r \in {chat(disk, form, ext, now)} :
          /\ (before # {} /\ HasInput(form) /\ Answered(form, ext))
               => /\ r.ret = ChatResponse(200, TRUE, BotText(One(ext.llm)))
                  /\ \E chats \in {StoredChats(Final(r), u)} :
                       /\ Len(chats) = Len(One(before).chats) + 1
                       /\ IsPrefix(One(before).chats, chats)
                       /\ chats[Len(chats)].bot = One(ext.llm)
          /\ before = {}
               => /\ ~r.ret.success
                  /\ Final(r).files = disk.files
                  /\ Index(Final(r)) = Index(disk)

====
